---- MODULE Spec2Model ----
(***************************************************************************)
(* Gadget Zero (zero.c): the endpoint-0 control dispatcher, the bulk-OUT   *)
(* endpoint lifecycle, the receive request lifecycle and the blocking      *)
(* reader of the character device, as one state machine.                   *)
(*                                                                         *)
(* Contexts: zero_setup, zero_disconnect and source_sink_complete are      *)
(* callbacks of the USB device controller (each runs to completion);       *)
(* usb_zero_read runs in a process and is split at the points where        *)
(* a callback can run in between.                                         *)
(***************************************************************************)
EXTENDS Integers, Sequences, FiniteSets, TLC

(***************************************************************************)
(* Bounds of the model.                                                    *)
(***************************************************************************)
\* number of read() calls the consumer issues
MaxReads == 2

(***************************************************************************)
(* Program constants.                                                      *)
(***************************************************************************)
\* unsigned char data[128]
BUFLEN == 128
\* a receive request twice the size of dev->data
REQLEN_double == BUFLEN + BUFLEN
\* alloc_ep_req(ep, 128)
REQLEN == 128
USB_BUFSIZ == 256
CONFIG_LOOPBACK == 2
STRING_MANUFACTURER == 25
STRING_PRODUCT == 42
STRING_SERIAL == 101
STRING_SOURCE_SINK == 248
STRING_LOOPBACK == 249
\* <linux/usb/ch9.h> values used by zero.c
USB_DIR_IN == 128
USB_DIR_OUT == 0
USB_REQ_GET_STATUS == 0
USB_REQ_GET_DESCRIPTOR == 6
USB_REQ_SET_CONFIGURATION == 9
USB_DT_DEVICE == 1
USB_DT_CONFIG == 2
USB_DT_STRING == 3
USB_DT_INTERFACE == 4
USB_DT_ENDPOINT == 5
USB_DT_DEVICE_QUALIFIER == 6
USB_DT_ENDPOINT_SIZE == 7
USB_DT_CONFIG_SIZE == 9
USB_DT_INTERFACE_SIZE == 9
USB_DT_DEVICE_SIZE == 18
USB_CLASS_VENDOR_SPEC == 255
USB_ENDPOINT_XFER_BULK == 2
\* USB_CONFIG_ATT_ONE | USB_CONFIG_ATT_SELFPOWER
CONFIG_ATTRIBUTES == 192
\* <linux/errno.h> values used by zero.c
EFAULT == 14
EINVAL == 22
EOVERFLOW == 75
EOPNOTSUPP == 95
ECONNABORTED == 103
ECONNRESET == 104
ESHUTDOWN == 108
EINPROGRESS == 115
EREMOTEIO == 121
EIO == 5
\* values the controller fixes at bind time
EP0_MAXPACKET == 64
BULK_MAXPACKET == 64
BULK_OUT_ADDRESS == 1
BCD_DEVICE_LO == 153
BCD_DEVICE_HI == 153

\* min that always gives its second argument
Min_second(a, b) == b

Min(a, b) == IF a < b THEN a ELSE b

Lo(w) == w % 256
Hi(w) == (w \div 256) % 256

(***************************************************************************)
(* Descriptor catalog (lines 107-168).                                     *)
(***************************************************************************)
device_desc ==
    << USB_DT_DEVICE_SIZE, USB_DT_DEVICE, Lo(272), Hi(272),
       USB_CLASS_VENDOR_SPEC, 0, 0, EP0_MAXPACKET,
       Lo(61423), Hi(61423), Lo(54), Hi(54),
       BCD_DEVICE_LO, BCD_DEVICE_HI,
       STRING_MANUFACTURER, STRING_PRODUCT, STRING_SERIAL, 1 >>

fs_sink_desc ==
    << USB_DT_ENDPOINT_SIZE, USB_DT_ENDPOINT, USB_DIR_OUT + BULK_OUT_ADDRESS,
       USB_ENDPOINT_XFER_BULK, Lo(BULK_MAXPACKET), Hi(BULK_MAXPACKET), 0 >>

\* wTotalLength (bytes 3,4) is left 0 here: it is computed when serialized
loopback_config ==
    << USB_DT_CONFIG_SIZE, USB_DT_CONFIG, 0, 0, 1, CONFIG_LOOPBACK,
       STRING_LOOPBACK, CONFIG_ATTRIBUTES, 1 >>

loopback_intf ==
    << USB_DT_INTERFACE_SIZE, USB_DT_INTERFACE, 0, 0, 1,
       USB_CLASS_VENDOR_SPEC, 0, 0, STRING_LOOPBACK >>

\* the function list without its endpoint descriptor
fs_loopback_function_noendpoint == << loopback_intf >>

fs_loopback_function == << loopback_intf, fs_sink_desc >>

longname == <<71, 97, 100, 103, 101, 116, 32, 90, 101, 114, 111>>
serial ==
    <<48, 49, 50, 51, 52, 53, 54, 55, 56, 57, 46, 48, 49, 50, 51, 52, 53,
      54, 55, 56, 57, 46, 48, 49, 50, 51, 52, 53, 54, 55, 56, 57>>
loopback ==
    <<108, 111, 111, 112, 32, 105, 110, 112, 117, 116, 32, 116, 111, 32,
      111, 117, 116, 112, 117, 116>>
source_sink ==
    <<115, 111, 117, 114, 99, 101, 32, 97, 110, 100, 32, 115, 105, 110,
      107, 32, 100, 97, 116, 97>>
\* "<sysname> <release> with <gadget name>", written by zero_bind
manufacturer ==
    <<76, 105, 110, 117, 120, 32, 50, 46, 54, 46, 51, 53, 46, 51, 32, 119,
      105, 116, 104, 32, 102, 115, 108, 45, 117, 115, 98, 50, 45, 117, 100,
      99>>

strings ==
    << [id |-> STRING_MANUFACTURER, s |-> manufacturer],
       [id |-> STRING_PRODUCT,      s |-> longname],
       [id |-> STRING_SERIAL,       s |-> serial],
       [id |-> STRING_LOOPBACK,     s |-> loopback],
       [id |-> STRING_SOURCE_SINK,  s |-> source_sink] >>

\* stringtab.language = 0x0409
stringtab_language == 1033

(***************************************************************************)
(* Descriptor builder.  usb_gadget_config_buf and usb_gadget_get_string    *)
(* come from config.c and usbstring.c, which zero.c includes.              *)
(***************************************************************************)
RECURSIVE Concat(_)
Concat(ss) == IF ss = <<>> THEN <<>> ELSE Head(ss) \o Concat(Tail(ss))

\* header first, then every descriptor of the function in order; the total
\* length is the running sum of what was emitted; -EINVAL when it does not
\* fit in buflen.  Returns [len, buf].
usb_gadget_config_buf(config, buflen, function) ==
    LET body  == Concat(function)
        len   == USB_DT_CONFIG_SIZE + Len(body)
        hdr   == [config EXCEPT ![1] = USB_DT_CONFIG_SIZE,
                                ![2] = USB_DT_CONFIG,
                                ![3] = Lo(len), ![4] = Hi(len)]
    IN  IF len > buflen
        THEN [len |-> -EINVAL, buf |-> <<>>]
        ELSE [len |-> len, buf |-> hdr \o body]

\* lines 328-341
config_buf(type, index) ==
    LET r == usb_gadget_config_buf(loopback_config, USB_BUFSIZ,
                                   fs_loopback_function)
    IN  IF r.len < 0 THEN r
        ELSE [len |-> r.len, buf |-> [r.buf EXCEPT ![2] = type]]

RECURSIVE Utf16le(_)
Utf16le(s) == IF s = <<>> THEN <<>> ELSE <<Head(s), 0>> \o Utf16le(Tail(s))

\* id 0 is the language list; otherwise the table entry with that id, as a
\* 2-byte header followed by UTF-16LE code units; -EINVAL when absent.
usb_gadget_get_string(id) ==
    IF id = 0
    THEN [len |-> 4,
          buf |-> <<4, USB_DT_STRING, Lo(stringtab_language),
                    Hi(stringtab_language)>>]
    ELSE LET hits == {i \in 1..Len(strings) : strings[i].id = id}
         IN  IF hits = {}
             THEN [len |-> -EINVAL, buf |-> <<>>]
             ELSE LET s == strings[CHOOSE i \in hits : \A j \in hits : i <= j].s
                      n == 2 + 2 * Len(s)
                  IN  [len |-> n, buf |-> <<n, USB_DT_STRING>> \o Utf16le(s)]

(***************************************************************************)
(* State.                                                                  *)
(*   out_ep      dev->out_ep: "ep_out" or "NULL"                           *)
(*   ep_enabled  whether the controller has the bulk endpoint enabled      *)
(*   ep_queue    requests queued on the bulk endpoint, oldest first        *)
(*   reqs        every usb_request allocated for the bulk endpoint so far  *)
(*   data, data_size   dev->data, dev->data_size                           *)
(*   pc, cur, count, ubuf, ret, nreads   the reader: its position in       *)
(*               usb_zero_read, the request its start call returned (0 for *)
(*               NULL), its count argument, the bytes copied to its        *)
(*               buffer, the value returned, the reads started             *)
(*   ctrl        the last control packet handled and what was answered     *)
(*   attached    whether a host is attached: FALSE after bind and after a  *)
(*               disconnect event, TRUE once a control packet has arrived  *)
(*   oops        a NULL endpoint was dereferenced                          *)
(*   lock_use    how the last step of the driver used dev->lock: "held"    *)
(*               when it read or wrote out_ep, data or data_size between   *)
(*               spin_lock and spin_unlock, "bare" when it did so without  *)
(*               the lock, "none" when it touched none of them             *)
(***************************************************************************)
VARIABLES out_ep, ep_enabled, ep_queue, reqs, data, data_size,
          pc, cur, count, ubuf, ret, nreads, ctrl, attached, oops, lock_use

vars == << out_ep, ep_enabled, ep_queue, reqs, data, data_size,
           pc, cur, count, ubuf, ret, nreads, ctrl, attached, oops,
           lock_use >>

\* the fields the completion callback and the configuration code work on
Dev == [out_ep |-> out_ep, ep_enabled |-> ep_enabled, ep_queue |-> ep_queue,
        reqs |-> reqs, data |-> data, data_size |-> data_size, pc |-> pc]

(***************************************************************************)
(* Inputs of the environment.                                              *)
(***************************************************************************)
\* req->status values a completion can carry
Statuses == {0, -ECONNABORTED, -ECONNRESET, -ESHUTDOWN, -EOVERFLOW,
             -EREMOTEIO, -EIO}
Gone == {-ECONNABORTED, -ECONNRESET, -ESHUTDOWN}
\* req->actual values the host's data would give; the controller never
\* reports more than req->length (see Complete)
Actuals == {0, 64, BUFLEN, 2 * BUFLEN}
\* the count argument of read()
Counts == {0, 200}
\* what usb_ep_alloc_request / kmalloc do in alloc_ep_req
AllocOutcomes == {"ok", "noreq", "nobuf"}

\* byte i of the data the host sends into request r
HostByte(r, i) == (16 * r + i) % 256

Packet(type, request, value, length) ==
    [bRequestType |-> type, bRequest |-> request, wValue |-> value,
     wIndex |-> 0, wLength |-> length]

NoPacket == Packet(0, -1, 0, 0)

GetDescriptor(dtype, index, length) ==
    Packet(USB_DIR_IN, USB_REQ_GET_DESCRIPTOR, dtype * 256 + index, length)

SetConfiguration(number) == Packet(0, USB_REQ_SET_CONFIGURATION, number, 0)

Packets ==
    { GetDescriptor(USB_DT_DEVICE, 0, 0),
      GetDescriptor(USB_DT_DEVICE, 0, 8),
      GetDescriptor(USB_DT_DEVICE, 0, 18),
      GetDescriptor(USB_DT_DEVICE, 0, 64),
      GetDescriptor(USB_DT_CONFIG, 0, 9),
      GetDescriptor(USB_DT_CONFIG, 0, 255),
      GetDescriptor(USB_DT_STRING, 0, 255),
      GetDescriptor(USB_DT_STRING, STRING_PRODUCT, 255),
      GetDescriptor(USB_DT_STRING, 7, 255),
      GetDescriptor(USB_DT_DEVICE_QUALIFIER, 0, 10),
      Packet(0, USB_REQ_GET_DESCRIPTOR, USB_DT_DEVICE * 256, 18),
      SetConfiguration(CONFIG_LOOPBACK),
      SetConfiguration(0),
      SetConfiguration(5),
      Packet(USB_DIR_IN, USB_REQ_SET_CONFIGURATION, CONFIG_LOOPBACK, 0),
      Packet(USB_DIR_IN, USB_REQ_GET_STATUS, 0, 2) }

\* the packets that change the configuration
ConfigPackets ==
    { SetConfiguration(CONFIG_LOOPBACK), SetConfiguration(0),
      SetConfiguration(5) }

\* what usb_ep_enable, and usb_ep_queue on either endpoint, may return
EnableResults == {0, -EINVAL}
QueueResults == {0, -ESHUTDOWN}

(***************************************************************************)
(* Bulk transfer engine (lines 183-256).                                   *)
(***************************************************************************)
\* A byte buffer is written as its runs, in order: [n, src] stands for n
\* consecutive bytes which are zero when src = 0 and otherwise the bytes the
\* host sent into request src at the same offsets: byte i of the buffer
\* is HostByte(src, i) for the run that covers i.
RECURSIVE ByteFrom(_, _, _)
ByteFrom(b, i, off) ==
    IF b = <<>> THEN 0
    ELSE IF i <= off + Head(b).n
         THEN IF Head(b).src = 0 THEN 0 ELSE HostByte(Head(b).src, i)
         ELSE ByteFrom(Tail(b), i, off + Head(b).n)

ByteAt(b, i) == ByteFrom(b, i, 0)

RECURSIVE Size(_)
Size(b) == IF b = <<>> THEN 0 ELSE Head(b).n + Size(Tail(b))

\* the first n bytes of b
RECURSIVE Take(_, _)
Take(b, n) ==
    IF n <= 0 \/ b = <<>> THEN <<>>
    ELSE IF Head(b).n <= n
         THEN <<Head(b)>> \o Take(Tail(b), n - Head(b).n)
         ELSE << [Head(b) EXCEPT !.n = n] >>

\* b without its first n bytes
RECURSIVE Drop(_, _)
Drop(b, n) ==
    IF b = <<>> \/ n <= 0 THEN b
    ELSE IF Head(b).n <= n
         THEN Drop(Tail(b), n - Head(b).n)
         ELSE << [Head(b) EXCEPT !.n = @ - n] >> \o Tail(b)

\* a followed by b, adjacent runs of one source merged
Join(a, b) ==
    IF a = <<>> THEN b
    ELSE IF b = <<>> THEN a
    ELSE IF a[Len(a)].src = Head(b).src
         THEN SubSeq(a, 1, Len(a) - 1)
              \o << [Head(b) EXCEPT !.n = @ + a[Len(a)].n] >> \o Tail(b)
         ELSE a \o b

Zeroes(n) == IF n = 0 THEN <<>> ELSE << [n |-> n, src |-> 0] >>

\* req->buf when the transfer ends: zero-filled by source_sink_start_ep,
\* then the first `actual` bytes written by the controller
ReqBuf(r, actual) ==
    Join(IF actual = 0 THEN <<>> ELSE << [n |-> actual, src |-> r] >>,
         Zeroes(REQLEN - actual))

\* dst after memcpy(dst, src, n)
memcpy(dst, src, n) == Join(Take(src, n), Drop(dst, n))

\* a request as alloc_ep_req returns it (usb_ep_alloc_request zeroes it,
\* req->length = length)
NewReq == [st |-> "alloc", status |-> 0, length |-> REQLEN, nfree |-> 0,
           nkfree |-> 0, nwake |-> 0]

\* free_ep_req without its usb_ep_free_request call
free_ep_req_bufonly(rq) == [rq EXCEPT !.nkfree = @ + 1]

\* kfree(req->buf); usb_ep_free_request(ep, req)
free_ep_req(rq) ==
    [rq EXCEPT !.st = "freed", !.nkfree = @ + 1, !.nfree = @ + 1]

\* the task sleeping on dev->bulkrq, if any, becomes runnable
wake_up_interruptible(p) == IF p = "sleeping" THEN "woken" ELSE p

\* the switch with the copy done for every status
complete_switch_anystatus(D, r, status, actual) ==
    IF D.out_ep = "ep_out"
    THEN [D EXCEPT !.data = memcpy(@, ReqBuf(r, actual), actual),
                   !.data_size = actual]
    ELSE D

\* the switch with dev->data_size = req->length
complete_switch_length(D, r, status, actual) ==
    IF status = 0 /\ D.out_ep = "ep_out"
    THEN [D EXCEPT !.data = memcpy(@, ReqBuf(r, actual), actual),
                   !.data_size = BUFLEN]
    ELSE D

\* the switch on req->status, lines 207-233
complete_switch(D, r, status, actual) ==
    IF status = 0 /\ D.out_ep = "ep_out"
    THEN [D EXCEPT !.data = memcpy(@, ReqBuf(r, actual), actual),
                   !.data_size = actual]
    ELSE D

\* lines 203-236; status and actual are req->status and req->actual as the
\* controller set them.  nwake counts the wake_up calls made for r.
source_sink_complete(D, r, status, actual) ==
    LET D0 == [D EXCEPT !.reqs[r].status = status]
        D1 == complete_switch(D0, r, D0.reqs[r].status, actual)
        D2 == [D1 EXCEPT !.reqs[r] = free_ep_req(@)]
    IN  [D2 EXCEPT !.pc = wake_up_interruptible(@),
                   !.reqs[r].nwake = @ + 1]

RECURSIVE nuke(_, _)
nuke(D, q) ==
    IF q = <<>> THEN D
    ELSE nuke(source_sink_complete(D, Head(q), -ESHUTDOWN, 0), Tail(q))

\* usb_ep_disable: every request still queued completes with -ESHUTDOWN
\* before the call returns; a disabled endpoint is left as it is
usb_ep_disable(D) ==
    IF D.ep_enabled
    THEN [nuke(D, D.ep_queue) EXCEPT !.ep_enabled = FALSE, !.ep_queue = <<>>]
    ELSE D

(***************************************************************************)
(* Endpoint lifecycle (lines 310-314, 343-379).                            *)
(***************************************************************************)
\* zero_reset_config without its usb_ep_disable call
zero_reset_config_nodisable(D) == [D EXCEPT !.out_ep = "NULL"]

\* lines 310-314
zero_reset_config(D) == [usb_ep_disable(D) EXCEPT !.out_ep = "NULL"]

\* lines 343-360; eres is what usb_ep_enable returns: 0, or a negative
\* errno
set_loopback_config(D, eres) ==
    [res |-> eres,
     dev |-> IF eres = 0 THEN [D EXCEPT !.ep_enabled = TRUE] ELSE D]

\* zero_set_config without the reset on failure
zero_set_config_noreset(D, number, eres) == set_loopback_config(D, eres)

\* lines 361-379; `number` is not looked at
zero_set_config(D, number, eres) ==
    LET r == set_loopback_config(D, eres)
    IN  IF r.res # 0
        THEN [res |-> r.res, dev |-> zero_reset_config(r.dev)]
        ELSE r

\* usb_ep_queue on the bulk endpoint: refused while it is disabled,
\* otherwise qres (0, or a negative errno of the controller)
usb_ep_queue(D, qres) == IF D.ep_enabled THEN qres ELSE -ESHUTDOWN

\* lines 238-256 with alloc_ep_req (188-202): [req, dev], req = 0 for NULL
source_sink_start_ep(D, ares, qres) ==
    LET r == Len(D.reqs) + 1
    IN  CASE ares = "noreq" -> [req |-> 0, dev |-> D]
          [] ares = "nobuf" ->
               [req |-> 0,
                dev |-> [D EXCEPT !.reqs =
                           Append(@, [NewReq EXCEPT !.st = "freed",
                                                    !.nfree = 1])]]
          [] OTHER ->
               IF usb_ep_queue(D, qres) = 0
               THEN [req |-> r,
                     dev |-> [D EXCEPT
                                !.reqs = Append(@,
                                   [NewReq EXCEPT !.st = "queued",
                                                  !.status = -EINPROGRESS]),
                                !.ep_queue = Append(@, r)]]
               ELSE [req |-> 0,
                     dev |-> [D EXCEPT !.reqs = Append(@, free_ep_req(NewReq))]]

(***************************************************************************)
(* Control-request dispatcher (lines 383-447).                             *)
(***************************************************************************)
\* the switch on ctrl->bRequest, lines 397-432: [value, buf, dev]; buf is
\* what was written at the start of req->buf
setup_switch(pkt, D, eres) ==
    LET w_value  == pkt.wValue
        w_length == pkt.wLength
        unknown  == [value |-> -EOPNOTSUPP, buf |-> <<>>, dev |-> D]
        clip(r)  == [value |-> IF r.len >= 0
                               THEN Min(w_length, r.len % 65536)
                               ELSE r.len,
                     buf |-> r.buf, dev |-> D]
    IN  CASE pkt.bRequest = USB_REQ_GET_DESCRIPTOR ->
               IF pkt.bRequestType # USB_DIR_IN THEN unknown
               ELSE CASE Hi(w_value) = USB_DT_DEVICE ->
                           LET v == Min(w_length, USB_DT_DEVICE_SIZE)
                           IN  [value |-> v,
                                buf |-> SubSeq(device_desc, 1, v),
                                dev |-> D]
                      [] Hi(w_value) = USB_DT_CONFIG ->
                           clip(config_buf(Hi(w_value), Lo(w_value)))
                      [] Hi(w_value) = USB_DT_STRING ->
                           clip(usb_gadget_get_string(Lo(w_value)))
                      [] OTHER -> unknown
          [] pkt.bRequest = USB_REQ_SET_CONFIGURATION ->
               IF pkt.bRequestType # 0 THEN unknown
               ELSE LET r == zero_set_config(D, w_value, eres)
                    IN  [value |-> r.res, buf |-> <<>>, dev |-> r.dev]
          [] OTHER -> unknown

\* the response queued whatever the sign of value
respond_unchecked(prev, pkt, value, buf, q0res) ==
    [pkt |-> pkt, computed |-> value, value |-> q0res, nqueue |-> 1,
     length |-> value, zero |-> (value < pkt.wLength),
     resp |-> SubSeq(buf, 1, value)]

\* lines 433-446: the data stage, or the stall.  q0res is what usb_ep_queue
\* on endpoint 0 returns.  prev is the record of the previous transaction
\* (req->length keeps its value when nothing is queued).
respond(prev, pkt, value, buf, q0res) ==
    IF value >= 0
    THEN [pkt |-> pkt, computed |-> value, value |-> q0res, nqueue |-> 1,
          length |-> value, zero |-> (value < pkt.wLength),
          resp |-> SubSeq(buf, 1, value)]
    ELSE [pkt |-> pkt, computed |-> value, value |-> value, nqueue |-> 0,
          length |-> prev.length, zero |-> FALSE, resp |-> <<>>]

\* no control transaction yet on this connection
NoCtrl == [pkt |-> NoPacket, computed |-> 0, value |-> 0, nqueue |-> 0,
           length |-> 0, zero |-> FALSE, resp |-> <<>>]

(***************************************************************************)
(* Initial state: after zero_bind (lines 463-516), device file opened.     *)
(***************************************************************************)
Init ==
    /\ out_ep = "ep_out"
    /\ ep_enabled = FALSE
    /\ ep_queue = <<>>
    /\ reqs = <<>>
    /\ data = Zeroes(BUFLEN)
    /\ data_size = 0
    /\ pc = "idle"
    /\ cur = 0
    /\ count = 0
    /\ ubuf = <<>>
    /\ ret = 0
    /\ nreads = 0
    /\ ctrl = NoCtrl
    /\ attached = FALSE
    /\ oops = FALSE
    /\ lock_use = "none"

(***************************************************************************)
(* Actions.                                                                *)
(***************************************************************************)
\* one control packet, lines 383-447.  With dev->out_ep NULL the call
\* usb_ep_enable(ep, d) dereferences it.  zero_set_config runs between
\* spin_lock(&dev->lock) and spin_unlock (lines 422-424); the descriptor
\* requests touch only the endpoint-0 request.
zero_setup(pkt, eres, q0res) ==
    /\ ~oops
    /\ IF /\ pkt.bRequest = USB_REQ_SET_CONFIGURATION
          /\ pkt.bRequestType = 0
          /\ out_ep = "NULL"
       THEN /\ oops' = TRUE
            /\ UNCHANGED << out_ep, ep_enabled, ep_queue, reqs, data,
                            data_size, pc, ctrl, attached >>
       ELSE LET s == setup_switch(pkt, Dev, eres)
            IN  /\ out_ep' = s.dev.out_ep
                /\ ep_enabled' = s.dev.ep_enabled
                /\ ep_queue' = s.dev.ep_queue
                /\ reqs' = s.dev.reqs
                /\ data' = s.dev.data
                /\ data_size' = s.dev.data_size
                /\ pc' = s.dev.pc
                /\ ctrl' = respond(ctrl, pkt, s.value, s.buf, q0res)
                /\ attached' = TRUE
                /\ oops' = FALSE
    /\ lock_use' = IF /\ pkt.bRequest = USB_REQ_SET_CONFIGURATION
                      /\ pkt.bRequestType = 0
                   THEN "held" ELSE "none"
    /\ UNCHANGED << cur, count, ubuf, ret, nreads >>

\* lines 315-326: the body is compiled out
zero_disconnect ==
    /\ ~oops
    /\ attached
    /\ attached' = FALSE
    /\ ctrl' = NoCtrl
    /\ lock_use' = "none"
    /\ UNCHANGED << out_ep, ep_enabled, ep_queue, reqs, data, data_size,
                    pc, cur, count, ubuf, ret, nreads, oops >>

\* the controller completes the oldest queued request, with at most
\* req->length bytes received; source_sink_complete takes no lock
Complete(status, actual) ==
    /\ ~oops
    /\ ep_queue # <<>>
    /\ actual <= reqs[Head(ep_queue)].length
    /\ LET D == source_sink_complete([Dev EXCEPT !.ep_queue = Tail(@)],
                                     Head(ep_queue), status, actual)
       IN  /\ ep_queue' = D.ep_queue
           /\ reqs' = D.reqs
           /\ data' = D.data
           /\ data_size' = D.data_size
           /\ pc' = D.pc
    /\ lock_use' = "bare"
    /\ UNCHANGED << out_ep, ep_enabled, cur, count, ubuf, ret, nreads,
                    ctrl, attached, oops >>

\* usb_zero_read, lines 257-271: dev->out_ep (line 267) and
\* dev->data_size (line 271) are read with no lock taken
ReadStart(n, ares, qres) ==
    /\ ~oops
    /\ pc \in {"idle", "done"}
    /\ nreads < MaxReads
    /\ IF out_ep = "NULL"
       THEN /\ oops' = TRUE
            /\ UNCHANGED << ep_queue, reqs, pc, cur, count, ubuf, ret,
                            nreads >>
       ELSE LET s == source_sink_start_ep(Dev, ares, qres)
            IN  /\ ep_queue' = s.dev.ep_queue
                /\ reqs' = s.dev.reqs
                /\ cur' = s.req
                /\ pc' = "submitted"
                /\ count' = n
                /\ ubuf' = <<>>
                /\ ret' = 0
                /\ nreads' = nreads + 1
                /\ oops' = FALSE
    /\ lock_use' = "bare"
    /\ UNCHANGED << out_ep, ep_enabled, data, data_size, ctrl, attached >>

\* line 272: interruptible_sleep_on puts the task on dev->bulkrq
ReadSleep ==
    /\ ~oops
    /\ pc = "submitted"
    /\ pc' = "sleeping"
    /\ lock_use' = "none"
    /\ UNCHANGED << out_ep, ep_enabled, ep_queue, reqs, data, data_size,
                    cur, count, ubuf, ret, nreads, ctrl, attached, oops >>

\* line 272: a signal ends the interruptible sleep
Signal ==
    /\ ~oops
    /\ pc = "sleeping"
    /\ pc' = "woken"
    /\ lock_use' = "none"
    /\ UNCHANGED << out_ep, ep_enabled, ep_queue, reqs, data, data_size,
                    cur, count, ubuf, ret, nreads, ctrl, attached, oops >>

\* line 275: copy_to_user(buf, dev->data, dev->data_size)
ReadCopy(fault) ==
    /\ ~oops
    /\ pc = "woken"
    /\ IF fault
       THEN /\ ret' = -EFAULT
            /\ pc' = "done"
            /\ ubuf' = <<>>
       ELSE /\ ubuf' = Take(data, data_size)
            /\ pc' = "copied"
            /\ ret' = ret
    /\ lock_use' = "bare"
    /\ UNCHANGED << out_ep, ep_enabled, ep_queue, reqs, data, data_size,
                    cur, count, nreads, ctrl, attached, oops >>

\* lines 281-284: ret = dev->data_size; return ret
ReadReturn ==
    /\ ~oops
    /\ pc = "copied"
    /\ ret' = data_size
    /\ pc' = "done"
    /\ lock_use' = "bare"
    /\ UNCHANGED << out_ep, ep_enabled, ep_queue, reqs, data, data_size,
                    cur, count, ubuf, nreads, ctrl, attached, oops >>

\* the reader, the completions and the configuration changes together
Next ==
    \/ \E pkt \in ConfigPackets, eres \in EnableResults :
          zero_setup(pkt, eres, 0)
    \/ zero_disconnect
    \/ \E status \in Statuses, actual \in Actuals : Complete(status, actual)
    \/ \E n \in Counts, ares \in AllocOutcomes, qres \in QueueResults :
          ReadStart(n, ares, qres)
    \/ ReadSleep
    \/ Signal
    \/ \E fault \in BOOLEAN : ReadCopy(fault)
    \/ ReadReturn

Spec == Init /\ [][Next]_vars

\* the control dispatcher alone, over every packet
NextCtl ==
    \/ \E pkt \in Packets, eres \in EnableResults, q0res \in QueueResults :
          zero_setup(pkt, eres, q0res)
    \/ zero_disconnect

SpecCtl == Init /\ [][NextCtl]_vars

(***************************************************************************)
(* Properties.                                                             *)
(***************************************************************************)
\* the requests of `rs` that are queued on the endpoint
Outstanding(rs) == {r \in DOMAIN rs : rs[r].st = "queued"}

\* C1: the wake-up of a read's own receive is never lost: the reader is
\* never asleep on the wait queue once the completion of the receive it
\* submitted has run (from then on only a signal could end the sleep).
C1_WakeupNeverLost ==
    (pc = "sleeping" /\ cur # 0) => reqs[cur].st = "queued"

\* C2: when a configuration change deactivates the endpoint (dev->out_ep
\* goes to NULL) while requests are queued and the reader is asleep, every
\* queued request is completed in that step with a device-gone status and
\* freed, and the reader is woken.
C2_DeactivationWakesReader ==
    [][ (out_ep # "NULL" /\ out_ep' = "NULL" /\ ep_queue # <<>>
           /\ pc = "sleeping")
        => /\ pc' = "woken"
           /\ ep_queue' = <<>>
           /\ \A r \in Outstanding(reqs) :
                 /\ reqs'[r].st = "freed"
                 /\ reqs'[r].status \in Gone ]_vars

\* the reader was asleep with its receive queued when the endpoint was
\* deactivated: it is runnable, its request came back with -ESHUTDOWN
C2_Witness ==
    /\ out_ep = "NULL"
    /\ ~ep_enabled
    /\ pc = "woken"
    /\ cur # 0
    /\ reqs[cur].status = -ESHUTDOWN
    /\ ctrl.value < 0

NoDuplicates(q) == \A i, j \in DOMAIN q : q[i] = q[j] => i = j

\* C3: every request allocated by source_sink_start_ep is freed exactly
\* once: never twice, never left allocated once start has failed or the
\* completion has run, and a freed request is never on the endpoint queue.
C3_FreedExactlyOnce ==
    /\ \A r \in DOMAIN reqs :
          /\ reqs[r].st \in {"queued", "freed"}
          /\ reqs[r].nfree <= 1
          /\ reqs[r].nkfree <= 1
          /\ reqs[r].nwake <= 1
          /\ (reqs[r].st = "queued") = (reqs[r].nfree = 0)
          /\ reqs[r].st = "queued" =>
                /\ reqs[r].status = -EINPROGRESS
                /\ reqs[r].nwake = 0
                /\ reqs[r].nkfree = 0
                /\ \E i \in DOMAIN ep_queue : ep_queue[i] = r
          /\ reqs[r].nwake = 1 => (reqs[r].nfree = 1 /\ reqs[r].nkfree = 1)
    /\ \A i \in DOMAIN ep_queue :
          /\ ep_queue[i] \in DOMAIN reqs
          /\ reqs[ep_queue[i]].st = "queued"
    /\ NoDuplicates(ep_queue)

\* one request freed by its completion (an overrun) and one freed by
\* source_sink_start_ep after the submission was refused
C3_Witness ==
    /\ \E r \in DOMAIN reqs :
          /\ reqs[r].status = -EOVERFLOW
          /\ reqs[r].nwake = 1
          /\ reqs[r].nfree = 1
    /\ \E r \in DOMAIN reqs :
          /\ reqs[r].status = 0
          /\ reqs[r].nwake = 0
          /\ reqs[r].nkfree = 1
          /\ reqs[r].nfree = 1

\* C4: a step that completes a request with -ECONNABORTED, -ECONNRESET or
\* -ESHUTDOWN leaves dev->data and dev->data_size as they were and signals
\* the wait queue exactly once for that request.
C4_GoneKeepsData ==
    [][ \A r \in Outstanding(reqs) :
           reqs'[r].status \in Gone
           => /\ data' = data
              /\ data_size' = data_size
              /\ reqs[r].nwake = 0
              /\ reqs'[r].nwake = 1 ]_vars

\* a device-gone completion after a successful 64-byte receive: the 64
\* bytes of the earlier request are still there
C4_Witness ==
    \E r \in DOMAIN reqs, g \in DOMAIN reqs :
       /\ r < g
       /\ reqs[r].status = 0 /\ reqs[r].nwake = 1
       /\ reqs[g].status = -ECONNRESET /\ reqs[g].nwake = 1
       /\ data_size = 64
       /\ ByteAt(data, 64) = HostByte(r, 64)

\* C5: a success completion with actual length n on the endpoint held in
\* dev->out_ep sets data_size to n and the first n bytes of data to the n
\* bytes received; the copy of the read then takes exactly data_size bytes
\* of data and the read returns data_size.
C5_SuccessPublishesActual ==
    [][ /\ \A n \in Actuals :
             (ep_queue # <<>> /\ out_ep = "ep_out" /\ Complete(0, n))
             => /\ data_size' = n
                /\ Size(data') = BUFLEN
                /\ \A i \in 1..n :
                      ByteAt(data', i) = HostByte(Head(ep_queue), i)
                /\ \A i \in (n + 1)..BUFLEN :
                      ByteAt(data', i) = ByteAt(data, i)
        /\ (pc = "woken" /\ pc' = "copied")
             => /\ Size(ubuf') = data_size
                /\ \A i \in 1..data_size :
                      ByteAt(ubuf', i) = ByteAt(data, i)
        /\ (pc = "copied" /\ pc' = "done") => ret' = data_size ]_vars

\* a read whose receive completed with 64 bytes has returned 64, with
\* those 64 bytes in the caller's buffer
C5_Witness ==
    /\ pc = "done"
    /\ cur # 0
    /\ reqs[cur].status = 0
    /\ reqs[cur].nwake = 1
    /\ ret = 64
    /\ Size(ubuf) = 64
    /\ \A i \in 1..64 : ByteAt(ubuf, i) = HostByte(cur, i)

\* C6: SET_CONFIGURATION(2) that succeeded, followed as the next control
\* packet by SET_CONFIGURATION(0), leaves the bulk endpoint disabled and
\* dev->out_ep NULL.
C6_SetThenClearUnconfigures ==
    [][ \A eres \in EnableResults, q0res \in QueueResults :
           ( /\ ctrl.pkt = SetConfiguration(CONFIG_LOOPBACK)
             /\ ctrl.computed = 0
             /\ zero_setup(SetConfiguration(0), eres, q0res) )
           => (~ep_enabled' /\ out_ep' = "NULL") ]_vars

\* C7: a host-to-device SET_CONFIGURATION leaves the bulk endpoint enabled
\* only when its value is 2 and usb_ep_enable succeeded; for any other
\* value the endpoint is disabled afterwards and the computed result is
\* non-negative (no stall).
C7_OnlySupportedValueConfigures ==
    [][ \A pkt \in ConfigPackets, eres \in EnableResults,
           q0res \in QueueResults :
           (zero_setup(pkt, eres, q0res) /\ ~oops')
           => /\ ep_enabled' => (pkt.wValue = CONFIG_LOOPBACK /\ eres = 0)
              /\ pkt.wValue # CONFIG_LOOPBACK
                    => (~ep_enabled' /\ ctrl'.computed >= 0) ]_vars

\* C8: a SET_CONFIGURATION whose usb_ep_enable fails leaves, in the same
\* request, the endpoint disabled with nothing queued on it and dev->out_ep
\* NULL, and returns the negative result without queuing a response.
C8_FailedActivationRollsBack ==
    [][ \A pkt \in ConfigPackets, eres \in EnableResults \ {0},
           q0res \in QueueResults :
           (zero_setup(pkt, eres, q0res) /\ ~oops')
           => /\ out_ep' = "NULL"
              /\ ~ep_enabled'
              /\ ep_queue' = <<>>
              /\ Outstanding(reqs') = {}
              /\ ctrl'.value = eres
              /\ ctrl'.value < 0
              /\ ctrl'.nqueue = 0 ]_vars

\* activation failed on an endpoint that was enabled and had a receive
\* queued: rolled back, the receive given back, the failure returned
C8_Witness ==
    /\ ctrl.pkt = SetConfiguration(CONFIG_LOOPBACK)
    /\ ctrl.value = -EINVAL
    /\ ctrl.nqueue = 0
    /\ out_ep = "NULL"
    /\ ~ep_enabled
    /\ \E r \in DOMAIN reqs : reqs[r].status = -ESHUTDOWN

\* the packets zero_setup answers with -EOPNOTSUPP before any descriptor
\* is built: another request code, the wrong direction, another
\* descriptor type
Unsupported(pkt) ==
    \/ pkt.bRequest \notin {USB_REQ_GET_DESCRIPTOR, USB_REQ_SET_CONFIGURATION}
    \/ pkt.bRequest = USB_REQ_GET_DESCRIPTOR /\ pkt.bRequestType # USB_DIR_IN
    \/ pkt.bRequest = USB_REQ_SET_CONFIGURATION /\ pkt.bRequestType # 0
    \/ /\ pkt.bRequest = USB_REQ_GET_DESCRIPTOR
       /\ Hi(pkt.wValue) \notin {USB_DT_DEVICE, USB_DT_CONFIG, USB_DT_STRING}

\* C9: after every control packet: a negative computed result means
\* nothing was queued on endpoint 0 and that result was returned; a
\* non-negative one means the response was queued once, with a length
\* equal to the result and at most wLength.  Unsupported packets compute
\* a negative result.
C9_StallOrRespond ==
    ctrl.pkt # NoPacket =>
       /\ Unsupported(ctrl.pkt) => ctrl.computed = -EOPNOTSUPP
       /\ ctrl.computed < 0 =>
             /\ ctrl.nqueue = 0
             /\ ctrl.resp = <<>>
             /\ ctrl.value = ctrl.computed
       /\ ctrl.computed >= 0 =>
             /\ ctrl.nqueue = 1
             /\ ctrl.length = ctrl.computed
             /\ ctrl.length <= ctrl.pkt.wLength
             /\ Len(ctrl.resp) = ctrl.length

\* the 25-byte configuration descriptor asked for with wLength 9: 9 bytes
\* queued
C9_Witness ==
    /\ ctrl.pkt = GetDescriptor(USB_DT_CONFIG, 0, 9)
    /\ ctrl.computed = 9
    /\ ctrl.nqueue = 1
    /\ ctrl.length = 9

\* C10: a disconnect event leaves the bulk endpoint disabled, dev->out_ep
\* NULL and no receive request queued.
C10_DisconnectUnconfigures ==
    [][ zero_disconnect
        => (~ep_enabled' /\ out_ep' = "NULL" /\ ep_queue' = <<>>) ]_vars

\* C11: a read called with count N never copies more than N bytes to the
\* caller's buffer and never returns more than N.
C11_ReadBoundedByCount ==
    pc \in {"copied", "done"} => (Size(ubuf) <= count /\ ret <= count)

\* C12: a device-to-host GET_DESCRIPTOR for the device descriptor with
\* wLength L is answered with min(L, 18) bytes, the first min(L, 18) bytes
\* of device_desc; and whatever the descriptor type, a queued response is
\* never longer than L.
C12_DeviceDescriptorClipped ==
    LET pkt == ctrl.pkt
        L   == pkt.wLength
        n   == IF L < USB_DT_DEVICE_SIZE THEN L ELSE USB_DT_DEVICE_SIZE
    IN  /\ ( /\ pkt.bRequest = USB_REQ_GET_DESCRIPTOR
              /\ pkt.bRequestType = USB_DIR_IN
              /\ Hi(pkt.wValue) = USB_DT_DEVICE )
            => /\ ctrl.computed = n
               /\ ctrl.nqueue = 1
               /\ ctrl.length = n
               /\ Len(ctrl.resp) = n
               /\ \A i \in 1..n : ctrl.resp[i] = device_desc[i]
        /\ (pkt.bRequest = USB_REQ_GET_DESCRIPTOR /\ ctrl.nqueue = 1)
            => (ctrl.length <= L /\ Len(ctrl.resp) <= L)

\* the device descriptor asked for with wLength 8: its first 8 bytes
C12_Witness ==
    /\ ctrl.pkt = GetDescriptor(USB_DT_DEVICE, 0, 8)
    /\ ctrl.value = 0
    /\ ctrl.length = 8
    /\ ctrl.resp = <<18, 1, 16, 1, 255, 0, 0, 64>>

\* C13: GET_DESCRIPTOR for the configuration with wLength 255 is answered
\* with 25 bytes: the 9-byte configuration header, the 9-byte interface
\* descriptor, the 7-byte endpoint descriptor, in that order, and the
\* wTotalLength field of the header equals the number of bytes answered.
C13_ConfigDescriptorTotalLength ==
    ctrl.pkt = GetDescriptor(USB_DT_CONFIG, 0, 255) =>
       /\ ctrl.computed = 25
       /\ ctrl.nqueue = 1
       /\ ctrl.length = 25
       /\ Len(ctrl.resp) = 25
       /\ SubSeq(ctrl.resp, 1, 2) = <<USB_DT_CONFIG_SIZE, USB_DT_CONFIG>>
       /\ ctrl.resp[3] + 256 * ctrl.resp[4] = Len(ctrl.resp)
       /\ SubSeq(ctrl.resp, 5, 9) = SubSeq(loopback_config, 5, 9)
       /\ SubSeq(ctrl.resp, 10, 18) = loopback_intf
       /\ SubSeq(ctrl.resp, 19, 25) = fs_sink_desc

\* the whole configuration was answered and the response accepted by
\* endpoint 0: wTotalLength reads 25, the endpoint descriptor comes last
C13_Witness ==
    /\ ctrl.pkt = GetDescriptor(USB_DT_CONFIG, 0, 255)
    /\ ctrl.value = 0
    /\ ctrl.resp[3] = 25
    /\ ctrl.resp[19] = USB_DT_ENDPOINT_SIZE
    /\ ctrl.resp[20] = USB_DT_ENDPOINT

\* C14: at most one receive request is queued on the bulk endpoint in
\* every reachable state.
C14_AtMostOneOutstanding ==
    Len(ep_queue) <= 1 /\ Cardinality(Outstanding(reqs)) <= 1

\* C15: no step of the completion callback, of the control dispatcher or
\* of the read path reads or writes dev->out_ep, dev->data or
\* dev->data_size without holding dev->lock.
C15_SharedFieldsUnderLock ==
    lock_use # "bare"

\* C16: a control packet whose response was computed (value >= 0) never
\* makes zero_setup return a negative value, which is what tells the
\* controller to stall: a failure of usb_ep_queue on endpoint 0 is not
\* reported as a stall.
C16_QueueFailureIsNotStall ==
    (ctrl.pkt # NoPacket /\ ctrl.computed >= 0) => ctrl.value >= 0

\* C17: when the receive a read submitted has completed with a status
\* other than success, the copy of that read puts no bytes in the
\* caller's buffer and the read returns no byte count.
C17_FailedReceiveReturnsNoData ==
    [][ ( /\ cur # 0
          /\ reqs[cur].nwake = 1
          /\ reqs[cur].status # 0 )
        => /\ (pc = "woken" /\ pc' = "copied") => ubuf' = <<>>
           /\ (pc = "copied" /\ pc' = "done") => ret' <= 0 ]_vars

\* C18: a read is asleep on the wait queue only if its start call
\* returned a request: a read whose source_sink_start_ep failed does not
\* go to sleep.
C18_BlockedReadHasRequest ==
    pc = "sleeping" => cur # 0

\* C19: dev->out_ep is never NULL when it is handed to usb_ep_enable,
\* usb_ep_disable, usb_ep_alloc_request or usb_ep_queue.
C19_EndpointNeverNullAtTransport ==
    ~oops

\* C20: dev->data_size never exceeds the 128 bytes of dev->data, no step
\* writes past the end of dev->data, and a completion with -EOVERFLOW
\* leaves dev->data and dev->data_size as they were; the controller
\* reports at most the req->length bytes asked for.
C20_LengthWithinCapacity ==
    /\ data_size <= BUFLEN
    /\ Size(data) = BUFLEN
    /\ [][ /\ data_size' <= BUFLEN
           /\ Size(data') = BUFLEN
           /\ \A n \in Actuals :
                 Complete(-EOVERFLOW, n)
                 => (data' = data /\ data_size' = data_size) ]_vars

\* a receive that filled all 128 bytes, then an overrun on the next
\* request: the 128 bytes of the first are still there
C20_Witness ==
    \E r \in DOMAIN reqs, g \in DOMAIN reqs :
       /\ r < g
       /\ reqs[r].status = 0 /\ reqs[r].nwake = 1
       /\ reqs[g].status = -EOVERFLOW /\ reqs[g].nwake = 1
       /\ data_size = BUFLEN
       /\ data = << [n |-> BUFLEN, src |-> r] >>

====
